---------------------------- MODULE Spec2Model ----------------------------
(***************************************************************************)
(* A model of redundancy_system_simple.py: the content-hashing validator   *)
(* (DataValidator), the redundancy detector with its three counters        *)
(* (RedundancyDetector), the in-memory store that admits or rejects        *)
(* records (CloudDatabaseSimulator) and the demo driver main().            *)
(*                                                                         *)
(* Representation.                                                         *)
(*   - A Python str is a sequence of one-character strings.                *)
(*   - A Python value is <<"str", s>> or <<"int", n>>.                     *)
(*   - A Python dict is the sequence of its <<key, value>> items in        *)
(*     insertion order, with pairwise distinct keys.                       *)
(*   - A Python list is a sequence.                                        *)
(***************************************************************************)
EXTENDS Integers, Sequences, FiniteSets, TLC

(***************************************************************************)
(* Characters.  The printable ASCII characters in code-point order; the    *)
(* code point of the i-th one is 31 + i.  Tab and newline are added as the *)
(* two control characters the model knows.  The grave accent (code 96)     *)
(* cannot be written in a TLA+ string; "U+0060" keeps its place.  Beyond   *)
(* ASCII the model knows the three Greek sigmas, the letters on which      *)
(* str.lower() depends on the context.                                     *)
(***************************************************************************)
AsciiPrintable ==
    << " ", "!", "\"", "#", "$", "%", "&", "'", "(", ")", "*", "+", ",", "-", ".", "/",
       "0", "1", "2", "3", "4", "5", "6", "7", "8", "9", ":", ";", "<", "=", ">", "?",
       "@", "A", "B", "C", "D", "E", "F", "G", "H", "I", "J", "K", "L", "M", "N", "O",
       "P", "Q", "R", "S", "T", "U", "V", "W", "X", "Y", "Z", "[", "\\", "]", "^", "_",
       "U+0060", "a", "b", "c", "d", "e", "f", "g", "h", "i", "j", "k", "l", "m", "n", "o",
       "p", "q", "r", "s", "t", "u", "v", "w", "x", "y", "z", "{", "|", "}", "~" >>

\* GREEK CAPITAL LETTER SIGMA, SMALL LETTER SIGMA, SMALL LETTER FINAL SIGMA.
SigmaCapital == "U+03A3"
SigmaSmall == "U+03C3"
SigmaFinal == "U+03C2"

Sigmas == { SigmaCapital, SigmaSmall, SigmaFinal }

CharSet ==
    {AsciiPrintable[i] : i \in 1..Len(AsciiPrintable)} \cup {"\t", "\n"} \cup Sigmas

\* ord(c): the code point of a character.
Ord ==
    [c \in CharSet |->
        IF c = "\t" THEN 9
        ELSE IF c = "\n" THEN 10
        ELSE IF c = SigmaCapital THEN 931
        ELSE IF c = SigmaFinal THEN 962
        ELSE IF c = SigmaSmall THEN 963
        ELSE 31 + (CHOOSE i \in 1..Len(AsciiPrintable) : AsciiPrintable[i] = c)]

\* chr(n) for a printable code point.
Chr(n) == AsciiPrintable[n - 31]

\* The characters str.strip() removes (those of them the model knows).
Whitespace == {" ", "\t", "\n"}

\* The simple lower-case mapping of one character: "A".."Z" (65..90) move
\* to "a".."z", the capital sigma to the small sigma.
lower_char(c) ==
    IF c = SigmaCapital THEN SigmaSmall
    ELSE IF Ord[c] >= 65 /\ Ord[c] <= 90 THEN Chr(Ord[c] + 32)
    ELSE c

\* str.upper() on one character (what a caller does to change the case).
upper_char(c) ==
    IF c \in { SigmaSmall, SigmaFinal } THEN SigmaCapital
    ELSE IF Ord[c] >= 97 /\ Ord[c] <= 122 THEN Chr(Ord[c] - 32)
    ELSE c

\* str.upper()
str_upper(s) == [i \in 1..Len(s) |-> upper_char(s[i])]

\* The cased characters, and the case-ignorable ones, of the model's set.
Cased(c) == lower_char(c) # c \/ upper_char(c) # c

CaseIgnorable == { "'", ".", ":", "^", "U+0060" }

\* str.lower() writes the capital sigma at place i as a final sigma when a
\* cased character precedes it and none follows it, case-ignorable
\* characters skipped.
final_sigma(s, i) ==
    LET before == { j \in 1..(i - 1) : s[j] \notin CaseIgnorable }
        after == { j \in (i + 1)..Len(s) : s[j] \notin CaseIgnorable }
    IN  /\ before # { }
        /\ Cased(s[CHOOSE j \in before : \A k \in before : k <= j])
        /\ ~(/\ after # { }
             /\ Cased(s[CHOOSE j \in after : \A k \in after : j <= k]))

\* str.lower()
str_lower(s) ==
    [i \in 1..Len(s) |->
        IF s[i] = SigmaCapital
        THEN IF final_sigma(s, i) THEN SigmaFinal ELSE SigmaSmall
        ELSE lower_char(s[i])]

\* str.strip(): drop the leading and the trailing whitespace.
str_strip(s) ==
    LET keep == {i \in 1..Len(s) : s[i] \notin Whitespace}
    IN  IF keep = {} THEN << >>
        ELSE LET lo == CHOOSE i \in keep : \A j \in keep : i <= j
                 hi == CHOOSE i \in keep : \A j \in keep : j <= i
             IN  SubSeq(s, lo, hi)

\* str(n) for a natural number: its decimal digits.
RECURSIVE int_to_str(_)
int_to_str(n) ==
    IF n < 10 THEN << Chr(48 + n) >>
    ELSE int_to_str(n \div 10) \o << Chr(48 + (n % 10)) >>

\* str(v): a str is itself, an int is its decimal digits.
py_str(v) == IF v[1] = "int" THEN int_to_str(v[2]) ELSE v[2]

\* a < b for two str: Python's lexicographic order by code point.
RECURSIVE str_lt(_, _)
str_lt(a, b) ==
    IF b = << >> THEN FALSE
    ELSE IF a = << >> THEN TRUE
    ELSE IF Ord[Head(a)] < Ord[Head(b)] THEN TRUE
    ELSE IF Ord[Head(a)] > Ord[Head(b)] THEN FALSE
    ELSE str_lt(Tail(a), Tail(b))

(***************************************************************************)
(* Dicts.                                                                  *)
(***************************************************************************)
dict_keys(d) == {d[i][1] : i \in 1..Len(d)}

dict_has(d, k) == \E i \in 1..Len(d) : d[i][1] = k

\* d[k], for a key the dict has.
dict_get(d, k) == d[CHOOSE i \in 1..Len(d) : d[i][1] = k][2]

\* d[k] = v: an existing key keeps its place, a new key goes last.
dict_set(d, k, v) ==
    IF dict_has(d, k)
    THEN [i \in 1..Len(d) |-> IF d[i][1] = k THEN << k, v >> ELSE d[i]]
    ELSE Append(d, << k, v >>)

\* del d[k]
dict_del(d, k) == SelectSeq(d, LAMBDA it : it[1] # k)

\* The field names the program uses.
K_timestamp == << "t", "i", "m", "e", "s", "t", "a", "m", "p" >>
K_unique_id == << "u", "n", "i", "q", "u", "e", "_", "i", "d" >>
K_name == << "n", "a", "m", "e" >>
K_email == << "e", "m", "a", "i", "l" >>
K_age == << "a", "g", "e" >>
K_city == << "c", "i", "t", "y" >>

(***************************************************************************)
(* DataValidator                                                           *)
(***************************************************************************)

\* str(v).lower().strip(), the value side of the comprehension of line 19.
normalize_value(v) == str_strip(str_lower(py_str(v)))

\* A variant of normalized_data that keeps the timestamp item.
normalized_data_keep_timestamp(data) ==
    [i \in 1..Len(data) |-> << data[i][1], str_strip(str_lower(py_str(data[i][2]))) >>]

\* A variant of normalized_data that normalises the key where the value is
\* meant (k for v in the comprehension).
normalized_data_key_for_value(data) ==
    LET kept == SelectSeq(data, LAMBDA it : it[1] # K_timestamp)
    IN  [i \in 1..Len(kept) |-> << kept[i][1], str_strip(str_lower(kept[i][1])) >>]

\* A variant of data_after_hash that normalises the values of the dict it
\* is handed in place.
data_after_hash_in_place(data) ==
    [i \in 1..Len(data) |->
        IF data[i][1] = K_timestamp THEN data[i]
        ELSE << data[i][1], << "str", normalize_value(data[i][2]) >> >>]

\* Lines 19-21: the dict handed to generate_hash, after the call.  The
\* comprehension builds a new dict and nothing is assigned to data.
data_after_hash(data) == data

\* A variant of normalized_data that also leaves out the items whose
\* normalised value is empty.
normalized_data_drop_empty(data) ==
    LET kept == SelectSeq(data, LAMBDA it :
                    it[1] # K_timestamp /\ normalize_value(it[2]) # << >>)
    IN  [i \in 1..Len(kept) |-> << kept[i][1], normalize_value(kept[i][2]) >>]

\* Line 19: every item but 'timestamp', its value normalised.
normalized_data(data) ==
    LET kept == SelectSeq(data, LAMBDA it : it[1] # K_timestamp)
    IN  [i \in 1..Len(kept) |-> << kept[i][1], normalize_value(kept[i][2]) >>]

\* sort_keys=True: the items in ascending key order (insertion sort).
RECURSIVE insert_sorted(_, _)
insert_sorted(it, sorted) ==
    IF sorted = << >> THEN << it >>
    ELSE IF str_lt(it[1], Head(sorted)[1]) THEN << it >> \o sorted
    ELSE << Head(sorted) >> \o insert_sorted(it, Tail(sorted))

RECURSIVE sort_items(_)
sort_items(d) ==
    IF d = << >> THEN << >> ELSE insert_sorted(Head(d), sort_items(Tail(d)))

\* json's string escape of one character (ensure_ascii is on).
json_escape_char(c) ==
    IF c = "\"" THEN << "\\", "\"" >>
    ELSE IF c = "\\" THEN << "\\", "\\" >>
    ELSE IF c = "\t" THEN << "\\", "t" >>
    ELSE IF c = "\n" THEN << "\\", "n" >>
    ELSE IF c = SigmaCapital THEN << "\\", "u", "0", "3", "a", "3" >>
    ELSE IF c = SigmaFinal THEN << "\\", "u", "0", "3", "c", "2" >>
    ELSE IF c = SigmaSmall THEN << "\\", "u", "0", "3", "c", "3" >>
    ELSE << c >>

\* json.dumps of a str: quoted and escaped.
RECURSIVE json_escape(_)
json_escape(s) ==
    IF s = << >> THEN << >> ELSE json_escape_char(Head(s)) \o json_escape(Tail(s))

json_string(s) == << "\"" >> \o json_escape(s) \o << "\"" >>

\* The items of a JSON object, joined by ", ".
RECURSIVE json_items(_)
json_items(d) ==
    IF d = << >> THEN << >>
    ELSE LET one == json_string(Head(d)[1]) \o << ":", " " >> \o json_string(Head(d)[2])
         IN  IF Len(d) = 1 THEN one
             ELSE one \o << ",", " " >> \o json_items(Tail(d))

\* A variant of dumps_order without sort_keys=True: insertion order.
dumps_order_unsorted(d) == d

\* The order in which json.dumps writes the items (line 20: sort_keys=True).
dumps_order(d) == sort_items(d)

\* Line 20: json.dumps(normalized_data, sort_keys=True) of a str -> str dict.
json_dumps(d) == << "{" >> \o json_items(dumps_order(d)) \o << "}" >>

\* Line 21: hashlib.sha256(...).hexdigest().  SHA-256 is idealised as
\* collision free: the digest is the tagged preimage.
sha256_hexdigest(s) == << "sha256", s >>

\* DataValidator.generate_hash
generate_hash(data) == sha256_hexdigest(json_dumps(normalized_data(data)))

\* DataValidator.is_duplicate
is_duplicate(new_data, existing_data) ==
    generate_hash(new_data) = generate_hash(existing_data)

(***************************************************************************)
(* Bounds of the model.                                                    *)
(***************************************************************************)
\* datetime.now() returns one of the instants 1..MaxTime.
MaxTime == 2
\* uuid.uuid4() returns one of MaxUUID identifiers.
MaxUUID == 2
\* The number of check_redundancy / add_data calls of one behaviour.
MaxCalls == 3

(***************************************************************************)
(* The environment: the clock and the identifier source.                   *)
(***************************************************************************)
\* datetime.isoformat() of the instant t, as a value.
isoformat(t) == << "str", << "T" >> \o int_to_str(t) >>

\* str(uuid.uuid4()) for the u-th identifier, as a value.
uuid_str(u) == << "str", << "u", "-" >> \o int_to_str(u) >>

UUIDs == 1..MaxUUID

\* Optional[...]: None is the empty sequence, a value x is << x >>.
None == << >>
Some(e) == << e >>

(***************************************************************************)
(* State.                                                                  *)
(*   data_store          CloudDatabaseSimulator.data_store                 *)
(*   processed_count, duplicate_count, unique_count                        *)
(*                       the counters of the RedundancyDetector            *)
(*   clock               the last instant datetime.now() returned          *)
(*   new_data            the caller's dict of the last call, as the call   *)
(*                       left it                                           *)
(*   arg_data            that dict as the caller passed it (history)       *)
(*   arg_list            the list the last check_redundancy call was       *)
(*                       passed (history)                                  *)
(*   arg_type            type(new_data).__name__ of the last call's        *)
(*                       candidate (history)                               *)
(*   existing_data_list  the list a direct caller of check_redundancy      *)
(*                       passes                                            *)
(*   result              what the last operation returned                  *)
(*   calls               the number of check_redundancy calls (history)    *)
(*   main_pc, outcomes   main(): where it is, and the statuses it printed  *)
(*   rec_a, rec_b, rel   two dicts handed to the validator, and how rec_b  *)
(*                       was derived from rec_a                            *)
(*   hash_a, hash_b      generate_hash of the two, once computed           *)
(*   verdict             check_redundancy(rec_b, [rec_a])[0], once computed*)
(*   thr                 the threads that share one detector: for each,    *)
(*                       where it is in check_redundancy and its locals    *)
(***************************************************************************)
VARIABLES data_store, processed_count, duplicate_count, unique_count,
          clock, new_data, arg_data, arg_list, existing_data_list, result,
          calls, main_pc, outcomes,
          rec_a, rec_b, rel, hash_a, hash_b, verdict,
          arg_type, thr

detVars == << processed_count, duplicate_count, unique_count, calls >>
dbVars == << data_store, clock >>
callVars == << new_data, arg_data, arg_list, arg_type, result >>
mainVars == << main_pc, outcomes >>
hashVars == << rec_a, rec_b, rel, hash_a, hash_b, verdict >>

vars == << detVars, dbVars, callVars, existing_data_list, mainVars, hashVars, thr >>

(***************************************************************************)
(* RedundancyDetector                                                      *)
(***************************************************************************)

\* A variant of scan_existing that does not stop at the first match: the
\* index of the last matching element from index i on, or 0.
scan_existing_last(candidate, existing, i) ==
    LET hits == { j \in i..Len(existing) : is_duplicate(candidate, existing[j]) }
    IN  IF hits = { } THEN 0 ELSE CHOOSE j \in hits : \A k \in hits : k <= j

\* A variant of scan_existing that stops one element short of the end of
\* the list.
scan_existing_short(candidate, existing, i) ==
    LET hits == { j \in i..(Len(existing) - 1) : is_duplicate(candidate, existing[j]) }
    IN  IF hits = { } THEN 0 ELSE CHOOSE j \in hits : \A k \in hits : j <= k

\* Lines 47-50: the loop over existing_data_list, started at index i.  The
\* index of the element it returns at, or 0 when the loop ends.
RECURSIVE scan_existing(_, _, _)
scan_existing(candidate, existing, i) ==
    IF i > Len(existing) THEN 0
    ELSE IF is_duplicate(candidate, existing[i]) THEN i
    ELSE scan_existing(candidate, existing, i + 1)

\* Lines 47-53: the tuple check_redundancy returns.
check_redundancy(candidate, existing) ==
    LET i == scan_existing(candidate, existing, 1)
    IN  IF i # 0
        THEN [is_duplicate |-> TRUE, matching_entry |-> Some(existing[i])]
        ELSE [is_duplicate |-> FALSE, matching_entry |-> None]

\* Lines 47-48: the candidate after the call.  It is handed to
\* generate_hash once for every element the loop visits.
candidate_after(candidate, existing) ==
    IF Len(existing) > 0 THEN data_after_hash(candidate) ELSE candidate

\* Lines 47-48: the list after the call.  The loop hands to generate_hash
\* every element up to the one it returns at.
existing_after(candidate, existing) ==
    LET i == scan_existing(candidate, existing, 1)
        n == IF i = 0 THEN Len(existing) ELSE i
    IN  [j \in 1..Len(existing) |->
            IF j <= n THEN data_after_hash(existing[j]) ELSE existing[j]]

\* A variant of counters_after that falls through to line 52 after a match.
counters_after_fall_through(p, d, u, is_dup) ==
    [processed_count |-> p + 1,
     duplicate_count |-> IF is_dup THEN d + 1 ELSE d,
     unique_count |-> u + 1]

\* A variant of counters_after that takes a duplicate back out of
\* unique_count.
counters_after_recount(p, d, u, is_dup) ==
    [processed_count |-> p + 1,
     duplicate_count |-> IF is_dup THEN d + 1 ELSE d,
     unique_count |-> IF is_dup THEN u - 1 ELSE u + 1]

\* Lines 45, 49, 52: the counters after a call that found is_dup.
counters_after(p, d, u, is_dup) ==
    [processed_count |-> p + 1,
     duplicate_count |-> IF is_dup THEN d + 1 ELSE d,
     unique_count |-> IF is_dup THEN u ELSE u + 1]

\* The effect of one check_redundancy call on the detector.
DetectorStep(is_dup) ==
    LET c == counters_after(processed_count, duplicate_count, unique_count, is_dup)
    IN  /\ processed_count' = c.processed_count
        /\ duplicate_count' = c.duplicate_count
        /\ unique_count' = c.unique_count
        /\ calls' = calls + 1

(***************************************************************************)
(* CloudDatabaseSimulator                                                  *)
(***************************************************************************)

\* Line 66: new_data['timestamp'] = datetime.now().isoformat()
stamp(d, t) == dict_set(d, K_timestamp, isoformat(t))

\* Line 80: new_data['unique_id'] = str(uuid.uuid4())
assign_id(d, u) == dict_set(d, K_unique_id, uuid_str(u))

\* Lines 71-87: the dict add_data returns.
add_result(chk, d, t) ==
    IF chk.is_duplicate
    THEN [status |-> "rejected", reason |-> "duplicate_found",
          existing_data |-> chk.matching_entry[1], timestamp |-> isoformat(t)]
    ELSE [status |-> "added", id |-> dict_get(d, K_unique_id),
          timestamp |-> isoformat(t)]

\* A variant of store_after that puts the admitted record first.
store_after_prepend(store, chk, d) ==
    IF chk.is_duplicate THEN store ELSE << d >> \o store

\* A variant of store_after that appends on both branches.
store_after_always(store, chk, d) == Append(store, d)

\* Line 81: self.data_store.append(new_data.copy()), on the admit branch.
store_after(store, chk, d) == IF chk.is_duplicate THEN store ELSE Append(store, d)

\* add_data(d): the clock gives t1 at line 66 and t2 at line 76 or 86, and
\* uuid4 gives u.
AddDataWith(d, t1, t2, u) ==
    LET stamped == stamp(d, t1)
        chk == check_redundancy(stamped, data_store)
        checked == candidate_after(stamped, data_store)
        final == IF chk.is_duplicate THEN checked ELSE assign_id(checked, u)
    IN  /\ DetectorStep(chk.is_duplicate)
        /\ data_store' = store_after(existing_after(stamped, data_store), chk, final)
        /\ new_data' = final
        /\ arg_data' = d
        /\ arg_list' = data_store
        /\ arg_type' = "dict"
        /\ clock' = t2
        /\ result' = [op |-> "add_data", ret |-> add_result(chk, final, t2)]
        /\ UNCHANGED << existing_data_list, hashVars, thr >>

\* The dicts a caller builds afresh.
S_a == << "a" >>
S_A_sp == << "A", " " >>
S_aa == << "a", "a" >>

FreshInputs ==
    { << << K_name, << "str", S_a >> >> >>,
      << << K_name, << "str", S_A_sp >> >> >>,
      << << K_name, << "str", S_aa >> >> >> }

\* add_data on a dict built afresh.
AddData ==
    /\ calls < MaxCalls
    /\ \E d \in FreshInputs, t1 \in clock..MaxTime, u \in UUIDs :
        \E t2 \in t1..MaxTime : AddDataWith(d, t1, t2, u)
    /\ UNCHANGED mainVars

\* add_data on the dict object of the previous call, as that call left it.
AddDataAgain ==
    /\ calls > 0
    /\ calls < MaxCalls
    /\ \E t1 \in clock..MaxTime, u \in UUIDs :
        \E t2 \in t1..MaxTime : AddDataWith(new_data, t1, t2, u)
    /\ UNCHANGED mainVars

\* Lines 95-100: the dict get_stats returns.
get_stats ==
    [total_processed |-> processed_count,
     duplicates_found |-> duplicate_count,
     unique_entries |-> unique_count,
     total_stored |-> Len(data_store)]

\* Line 91: the copy get_all_data returns.
get_all_data == data_store

\* get_stats()
GetStats ==
    /\ result' = [op |-> "get_stats", ret |-> get_stats]
    /\ UNCHANGED << detVars, dbVars, new_data, arg_data, arg_list, arg_type,
                    existing_data_list, mainVars, hashVars, thr >>

\* get_all_data()
GetAllData ==
    /\ result' = [op |-> "get_all_data", ret |-> get_all_data]
    /\ UNCHANGED << detVars, dbVars, new_data, arg_data, arg_list, arg_type,
                    existing_data_list, mainVars, hashVars, thr >>

\* CloudDatabaseSimulator() and its RedundancyDetector(), just constructed.
Constructed ==
    /\ data_store = << >>
    /\ processed_count = 0
    /\ duplicate_count = 0
    /\ unique_count = 0
    /\ clock = 1
    /\ new_data = << >>
    /\ arg_data = << >>
    /\ arg_list = << >>
    /\ arg_type = "dict"
    /\ result = [op |-> "none"]
    /\ calls = 0

\* main() is not running.
MainIdle == main_pc = "idle" /\ outcomes = << >>

\* The validator has been handed nothing.
HashIdle ==
    /\ rec_a = << >>
    /\ rec_b = << >>
    /\ rel = "idle"
    /\ hash_a = None
    /\ hash_b = None
    /\ verdict = None

\* No thread is inside check_redundancy.
NoThreads == thr = << >>

Init ==
    /\ Constructed
    /\ existing_data_list = << >>
    /\ MainIdle
    /\ HashIdle
    /\ NoThreads

Next == AddData \/ AddDataAgain \/ GetStats \/ GetAllData

\* The simulator under any sequence of its operations.
Spec == Init /\ [][Next]_vars

\* db.detector.check_redundancy(c, db.get_all_data()): a caller that holds
\* the simulator asks its detector directly, on a dict built afresh.  The
\* copy of line 91 is shallow: its elements are the stored dicts themselves.
CheckStore ==
    /\ calls < MaxCalls
    /\ \E c \in FreshInputs :
        LET chk == check_redundancy(c, get_all_data)
        IN  /\ DetectorStep(chk.is_duplicate)
            /\ new_data' = candidate_after(c, get_all_data)
            /\ arg_data' = c
            /\ arg_list' = get_all_data
            /\ arg_type' = "dict"
            /\ data_store' = existing_after(c, get_all_data)
            /\ result' = [op |-> "check_redundancy", ret |-> chk]
    /\ UNCHANGED << clock, existing_data_list, mainVars, hashVars, thr >>

NextOps == Next \/ CheckStore

\* The simulator and its detector under any sequence of the operations of
\* both.
SpecOps == Init /\ [][NextOps]_vars

(***************************************************************************)
(* main()                                                                  *)
(***************************************************************************)
\* Line 111
test_data_1 ==
    << << K_name, << "str", << "J", "o", "h", "n", " ", "D", "o", "e" >> >> >>,
       << K_email, << "str", << "j", "o", "h", "n", "@", "e", "x", "a", "m", "p", "l", "e", ".", "c", "o", "m" >> >> >>,
       << K_age, << "int", 30 >> >>,
       << K_city, << "str", << "N", "e", "w", " ", "Y", "o", "r", "k" >> >> >> >>

\* Line 112
test_data_2 ==
    << << K_name, << "str", << "J", "o", "h", "n", " ", "D", "o", "e" >> >> >>,
       << K_email, << "str", << "j", "o", "h", "n", "@", "e", "x", "a", "m", "p", "l", "e", ".", "c", "o", "m" >> >> >>,
       << K_age, << "int", 30 >> >>,
       << K_city, << "str", << "N", "e", "w", " ", "Y", "o", "r", "k" >> >> >> >>

\* Line 113
test_data_3 ==
    << << K_name, << "str", << "j", "o", "h", "n", " ", "d", "o", "e" >> >> >>,
       << K_email, << "str", << "J", "O", "H", "N", "@", "e", "x", "a", "m", "p", "l", "e", ".", "c", "o", "m" >> >> >>,
       << K_age, << "int", 30 >> >>,
       << K_city, << "str", << "N", "e", "w", " ", "Y", "o", "r", "k" >> >> >> >>

\* Line 114
test_data_4 ==
    << << K_name, << "str", << "J", "a", "n", "e", " ", "S", "m", "i", "t", "h" >> >> >>,
       << K_email, << "str", << "j", "a", "n", "e", "@", "e", "x", "a", "m", "p", "l", "e", ".", "c", "o", "m" >> >> >>,
       << K_age, << "int", 25 >> >>,
       << K_city, << "str", << "L", "o", "n", "d", "o", "n" >> >> >> >>

\* Line 115
test_data_5 ==
    << << K_name, << "str", << "J", "o", "h", "n", " ", "D", "o", "e" >> >> >>,
       << K_email, << "str", << "j", "o", "h", "n", "@", "e", "x", "a", "m", "p", "l", "e", ".", "c", "o", "m" >> >> >>,
       << K_age, << "int", 30 >> >>,
       << K_city, << "str", << "B", "o", "s", "t", "o", "n" >> >> >> >>

\* Line 116
test_data_6 ==
    << << K_name, << "str", << "J", "a", "n", "e", " ", "S", "m", "i", "t", "h" >> >> >>,
       << K_email, << "str", << "j", "a", "n", "e", "@", "e", "x", "a", "m", "p", "l", "e", ".", "c", "o", "m" >> >> >>,
       << K_age, << "int", 25 >> >>,
       << K_city, << "str", << "L", "o", "n", "d", "o", "n" >> >> >> >>

\* Lines 110-117: the list test_data of main().
test_data == << test_data_1, test_data_2, test_data_3, test_data_4, test_data_5, test_data_6 >>

\* Lines 122-129: one turn of the loop, on the next entry of test_data.
MainAdd ==
    /\ main_pc = "loop"
    /\ Len(outcomes) < Len(test_data)
    /\ \E t1 \in clock..MaxTime, u \in UUIDs :
        \E t2 \in t1..MaxTime :
            AddDataWith(test_data[Len(outcomes) + 1], t1, t2, u)
    /\ outcomes' = Append(outcomes, result'.ret.status)
    /\ UNCHANGED main_pc

\* Lines 132-137: the loop is over; stats = db.get_stats() is printed.
MainStats ==
    /\ main_pc = "loop"
    /\ Len(outcomes) = Len(test_data)
    /\ main_pc' = "stats"
    /\ result' = [op |-> "get_stats", ret |-> get_stats]
    /\ UNCHANGED << detVars, dbVars, new_data, arg_data, arg_list, arg_type,
                    existing_data_list, outcomes, hashVars, thr >>

\* Lines 139-141: db.get_all_data() is printed.
MainList ==
    /\ main_pc = "stats"
    /\ main_pc' = "done"
    /\ result' = [op |-> "get_all_data", ret |-> get_all_data]
    /\ UNCHANGED << detVars, dbVars, new_data, arg_data, arg_list, arg_type,
                    existing_data_list, outcomes, hashVars, thr >>

\* Line 107: db = CloudDatabaseSimulator()
InitMain ==
    /\ Constructed
    /\ existing_data_list = << >>
    /\ main_pc = "loop"
    /\ outcomes = << >>
    /\ HashIdle
    /\ NoThreads

NextMain == MainAdd \/ MainStats \/ MainList

\* One run of main().
SpecMain == InitMain /\ [][NextMain]_vars

(***************************************************************************)
(* RedundancyDetector.check_redundancy, called directly on a list the      *)
(* caller owns.                                                            *)
(***************************************************************************)
\* The longest list a direct caller passes.
MaxList == 3

\* The records a direct caller passes, as candidates and in its list: three
\* that differ in case, surrounding whitespace or timestamp only, and one
\* with another name.
DetectorRecords ==
    FreshInputs \cup { stamp(<< << K_name, << "str", S_a >> >> >>, 1) }

ListsUpTo(S, n) == UNION { [1..k -> S] : k \in 0..n }

\* check_redundancy(c, existing_data_list)
CheckRedundancy ==
    /\ calls < MaxCalls
    /\ \E c \in DetectorRecords :
        LET chk == check_redundancy(c, existing_data_list)
        IN  /\ DetectorStep(chk.is_duplicate)
            /\ new_data' = candidate_after(c, existing_data_list)
            /\ arg_data' = c
            /\ arg_list' = existing_data_list
            /\ arg_type' = "dict"
            /\ existing_data_list' = existing_after(c, existing_data_list)
            /\ result' = [op |-> "check_redundancy", ret |-> chk]
    /\ UNCHANGED << dbVars, mainVars, hashVars, thr >>

\* The caller appends a record to its list between two calls.
AppendExisting ==
    /\ Len(existing_data_list) < MaxList
    /\ \E r \in DetectorRecords :
        existing_data_list' = Append(existing_data_list, r)
    /\ UNCHANGED << detVars, dbVars, callVars, mainVars, hashVars, thr >>

InitCheck ==
    /\ Constructed
    /\ existing_data_list \in ListsUpTo(DetectorRecords, MaxList)
    /\ MainIdle
    /\ HashIdle
    /\ NoThreads

NextCheck == CheckRedundancy \/ AppendExisting

\* One detector under any sequence of direct calls.
SpecCheck == InitCheck /\ [][NextCheck]_vars

(***************************************************************************)
(* check_redundancy handed a candidate that is not a mapping.  The code    *)
(* does not look at the candidate's type: the first thing it does with it  *)
(* is data.items() at line 19, inside the loop of line 47.                 *)
(***************************************************************************)
\* The types of the objects None, [] and '': none has an items() method.
NonMappingTypes == { "NoneType", "list", "str" }

\* Line 19: data.items() exists on a dict only.
has_items(type) == type = "dict"

\* Lines 47-48, 19: the loop body runs when the list has an element, and
\* generate_hash(new_data) then raises AttributeError on data.items().
raises_AttributeError(type, existing) == ~has_items(type) /\ Len(existing) > 0

\* Line 45 alone: the counters after a call that raised at line 48.
counters_after_raise(p, d, u) ==
    [processed_count |-> p + 1, duplicate_count |-> d, unique_count |-> u]

\* check_redundancy(x, existing_data_list) for x one of None, [] and ''.
\* Each is written << >> in new_data; arg_type tells them apart.
CheckRedundancyMalformed ==
    /\ calls < MaxCalls
    /\ \E type \in NonMappingTypes :
        /\ IF raises_AttributeError(type, existing_data_list)
           THEN LET c == counters_after_raise(processed_count, duplicate_count,
                                              unique_count)
                IN  /\ processed_count' = c.processed_count
                    /\ duplicate_count' = c.duplicate_count
                    /\ unique_count' = c.unique_count
                    /\ calls' = calls + 1
                    /\ result' = [op |-> "check_redundancy",
                                  raised |-> "AttributeError"]
           ELSE LET chk == check_redundancy(<< >>, existing_data_list)
                IN  /\ DetectorStep(chk.is_duplicate)
                    /\ result' = [op |-> "check_redundancy", ret |-> chk]
        /\ new_data' = << >>
        /\ arg_data' = << >>
        /\ arg_list' = existing_data_list
        /\ arg_type' = type
    /\ UNCHANGED << dbVars, existing_data_list, mainVars, hashVars, thr >>

NextInvalid == CheckRedundancy \/ CheckRedundancyMalformed \/ AppendExisting

\* One detector under direct calls with candidates of any type.
SpecInvalid == InitCheck /\ [][NextInvalid]_vars

(***************************************************************************)
(* One RedundancyDetector shared by threads, each of which calls           *)
(* check_redundancy once on the same list.  The code takes no lock.  An    *)
(* augmented assignment self.x += 1 reads the attribute, adds, and stores  *)
(* the attribute: another thread can run between the read and the store.   *)
(* The rest of the call touches nothing that another thread writes, so it  *)
(* is one step.                                                            *)
(***************************************************************************)
\* The number of threads.
MaxThreads == 2

Threads == 1..MaxThreads

\* The thread t with its fields changed to those of the record r.
thr_with(t, r) ==
    [thr EXCEPT ![t] = [f \in DOMAIN thr[t] |->
                            IF f \in DOMAIN r THEN r[f] ELSE thr[t][f]]]

\* Thread t enters check_redundancy(c, existing_data_list).
Call(t) ==
    /\ thr[t].pc = "idle"
    /\ \E c \in FreshInputs :
        thr' = thr_with(t, [pc |-> "line45_read", new_data |-> c])
    /\ calls' = calls + 1
    /\ UNCHANGED << processed_count, duplicate_count, unique_count, dbVars, callVars,
                    existing_data_list, mainVars, hashVars >>

\* Line 45, the read of self.processed_count.
ReadProcessed(t) ==
    /\ thr[t].pc = "line45_read"
    /\ thr' = thr_with(t, [pc |-> "line45_write", read |-> processed_count])
    /\ UNCHANGED << detVars, dbVars, callVars, existing_data_list, mainVars, hashVars >>

\* Line 45, the store to self.processed_count.
WriteProcessed(t) ==
    /\ thr[t].pc = "line45_write"
    /\ processed_count' = thr[t].read + 1
    /\ thr' = thr_with(t, [pc |-> "line47"])
    /\ UNCHANGED << duplicate_count, unique_count, calls, dbVars, callVars,
                    existing_data_list, mainVars, hashVars >>

\* Lines 47-48: the loop, up to the element it stops at or to the end.
Scan(t) ==
    /\ thr[t].pc = "line47"
    /\ LET chk == check_redundancy(thr[t].new_data, existing_data_list)
       IN  /\ thr' = thr_with(t,
                    [pc |-> IF chk.is_duplicate THEN "line49_read" ELSE "line52_read",
                     new_data |-> candidate_after(thr[t].new_data, existing_data_list),
                     ret |-> Some(chk)])
           /\ existing_data_list' = existing_after(thr[t].new_data, existing_data_list)
    /\ UNCHANGED << detVars, dbVars, callVars, mainVars, hashVars >>

\* Line 49, the read of self.duplicate_count.
ReadDuplicate(t) ==
    /\ thr[t].pc = "line49_read"
    /\ thr' = thr_with(t, [pc |-> "line49_write", read |-> duplicate_count])
    /\ UNCHANGED << detVars, dbVars, callVars, existing_data_list, mainVars, hashVars >>

\* Line 49, the store to self.duplicate_count, and the return of line 50.
WriteDuplicate(t) ==
    /\ thr[t].pc = "line49_write"
    /\ duplicate_count' = thr[t].read + 1
    /\ thr' = thr_with(t, [pc |-> "done"])
    /\ UNCHANGED << processed_count, unique_count, calls, dbVars, callVars,
                    existing_data_list, mainVars, hashVars >>

\* Line 52, the read of self.unique_count.
ReadUnique(t) ==
    /\ thr[t].pc = "line52_read"
    /\ thr' = thr_with(t, [pc |-> "line52_write", read |-> unique_count])
    /\ UNCHANGED << detVars, dbVars, callVars, existing_data_list, mainVars, hashVars >>

\* Line 52, the store to self.unique_count, and the return of line 53.
WriteUnique(t) ==
    /\ thr[t].pc = "line52_write"
    /\ unique_count' = thr[t].read + 1
    /\ thr' = thr_with(t, [pc |-> "done"])
    /\ UNCHANGED << processed_count, duplicate_count, calls, dbVars, callVars,
                    existing_data_list, mainVars, hashVars >>

\* One detector, just constructed, and the threads about to call it on a
\* list of at most one record.
InitConc ==
    /\ Constructed
    /\ existing_data_list \in ListsUpTo(FreshInputs, 1)
    /\ MainIdle
    /\ HashIdle
    /\ thr = [t \in Threads |->
                [pc |-> "idle", new_data |-> << >>, read |-> 0, ret |-> None]]

NextConc ==
    \E t \in Threads :
        \/ Call(t)
        \/ ReadProcessed(t)
        \/ WriteProcessed(t)
        \/ Scan(t)
        \/ ReadDuplicate(t)
        \/ WriteDuplicate(t)
        \/ ReadUnique(t)
        \/ WriteUnique(t)

\* One detector under concurrent calls.
SpecConc == InitConc /\ [][NextConc]_vars

(***************************************************************************)
(* DataValidator, handed two dicts of which the second is derived from the *)
(* first by one kind of change.                                            *)
(***************************************************************************)
\* The longest str value of a field.
MaxLen == 2

Alphabet == { "a", "A", " " }

StrsUpTo(n) == UNION { [1..k -> Alphabet] : k \in 0..n }

ContentKeys == { K_name, K_city }

\* A name with a letter beyond ASCII: alpha is written a, then a small sigma.
S_a_sigma == << "a", SigmaSmall >>

NameValues == { << "str", s >> : s \in StrsUpTo(MaxLen) \cup { S_a_sigma } }

CityValues == { << "str", << "A" >> >>, << "int", 3 >>, << "str", << "3", " " >> >> }

ContentValues(k) == IF k = K_name THEN NameValues ELSE CityValues

\* A dict from optional items, in the order name, city, timestamp, unique_id.
OptItem(k, vs) == { << >> } \cup { << << k, v >> >> : v \in vs }

HashInputs ==
    { n \o c \o t \o u :
        n \in OptItem(K_name, NameValues),
        c \in OptItem(K_city, CityValues),
        t \in OptItem(K_timestamp, { isoformat(1) }),
        u \in OptItem(K_unique_id, { uuid_str(1) }) }

\* The validator is run on rec_a and on the derived dict b.
Validate(b, kind) ==
    /\ rec_b' = b
    /\ rel' = kind
    /\ hash_a' = Some(generate_hash(rec_a))
    /\ hash_b' = Some(generate_hash(b))
    /\ verdict' = Some(check_redundancy(b, << rec_a >>).is_duplicate)
    /\ UNCHANGED << rec_a, detVars, dbVars, callVars, existing_data_list, mainVars,
                    thr >>

swap_case(c) == IF lower_char(c) # c THEN lower_char(c) ELSE upper_char(c)

IsStr(v) == v[1] = "str"

\* The case of one letter of a content field's str value is changed.
ChangeCase ==
    /\ rel \in { "same", "casews" }
    /\ \E i \in 1..Len(rec_b) :
        /\ rec_b[i][1] \in ContentKeys
        /\ IsStr(rec_b[i][2])
        /\ \E j \in 1..Len(rec_b[i][2][2]) :
            LET s == rec_b[i][2][2]
                t == [s EXCEPT ![j] = swap_case(s[j])]
            IN  /\ t # s
                /\ Validate([rec_b EXCEPT ![i] = << rec_b[i][1], << "str", t >> >>],
                            "casews")

\* A blank is put before or after a content field's str value.
AddWhitespace ==
    /\ rel \in { "same", "casews" }
    /\ \E i \in 1..Len(rec_b) :
        /\ rec_b[i][1] \in ContentKeys
        /\ IsStr(rec_b[i][2])
        /\ Len(rec_b[i][2][2]) < MaxLen
        /\ \E t \in { << " " >> \o rec_b[i][2][2], rec_b[i][2][2] \o << " " >> } :
            Validate([rec_b EXCEPT ![i] = << rec_b[i][1], << "str", t >> >>],
                     "casews")

\* s without its first character, if that is whitespace, and s without its
\* last one, if that is.
TrimmedOnce(s) ==
    { SubSeq(s, 2, Len(s)) : x \in { 1 } \cap { i \in 1..Len(s) : s[i] \in Whitespace } }
    \cup
    { SubSeq(s, 1, Len(s) - 1) : x \in { Len(s) } \cap { i \in 1..Len(s) : s[i] \in Whitespace } }

\* A leading or a trailing blank of a content field's str value is removed.
RemoveWhitespace ==
    /\ rel \in { "same", "casews" }
    /\ \E i \in 1..Len(rec_b) :
        /\ rec_b[i][1] \in ContentKeys
        /\ IsStr(rec_b[i][2])
        /\ \E t \in TrimmedOnce(rec_b[i][2][2]) :
            Validate([rec_b EXCEPT ![i] = << rec_b[i][1], << "str", t >> >>],
                     "casews")

\* The timestamp is set, changed or removed.
ChangeTimestamp ==
    /\ rel \in { "same", "timestamp" }
    /\ \E b \in { stamp(rec_b, t) : t \in 1..MaxTime } \cup { dict_del(rec_b, K_timestamp) } :
        /\ b # rec_b
        /\ Validate(b, "timestamp")

\* The unique_id is set, changed or removed.
ChangeUniqueId ==
    /\ rel \in { "same", "unique_id" }
    /\ \E b \in { assign_id(rec_b, u) : u \in UUIDs } \cup { dict_del(rec_b, K_unique_id) } :
        /\ b # rec_b
        /\ Validate(b, "unique_id")

\* Two neighbouring items change places: another insertion order.
Reorder ==
    /\ rel \in { "same", "order" }
    /\ \E i \in 1..(Len(rec_b) - 1) :
        Validate([rec_b EXCEPT ![i] = rec_b[i + 1], ![i + 1] = rec_b[i]], "order")

\* One content field gets another value.
ChangeContent ==
    /\ rel = "same"
    /\ \E i \in 1..Len(rec_b) :
        /\ rec_b[i][1] \in ContentKeys
        /\ \E v \in ContentValues(rec_b[i][1]) :
            /\ v # rec_b[i][2]
            /\ Validate([rec_b EXCEPT ![i] = << rec_b[i][1], v >>], "content")

\* A content field the dict lacks is added with the empty str.
AddEmptyField ==
    /\ rel = "same"
    /\ \E k \in ContentKeys :
        /\ ~dict_has(rec_b, k)
        /\ Validate(dict_set(rec_b, k, << "str", << >> >>), "missing")

InitHash ==
    /\ Constructed
    /\ existing_data_list = << >>
    /\ MainIdle
    /\ rec_a \in HashInputs
    /\ rec_b = rec_a
    /\ rel = "same"
    /\ hash_a = None
    /\ hash_b = None
    /\ verdict = None
    /\ NoThreads

NextHash ==
    \/ ChangeCase
    \/ AddWhitespace
    \/ RemoveWhitespace
    \/ ChangeTimestamp
    \/ ChangeUniqueId
    \/ Reorder
    \/ ChangeContent
    \/ AddEmptyField

\* The validator on pairs of dicts.
SpecHash == InitHash /\ [][NextHash]_vars

(***************************************************************************)
(* Properties.                                                             *)
(***************************************************************************)
MetadataKeys == { K_timestamp, K_unique_id }

\* The content fields of a dict: all but timestamp and unique_id.
ContentItems(d) == SelectSeq(d, LAMBDA it : it[1] \notin MetadataKeys)

\* A value stringified, lower-cased and trimmed.
NormalForm(v) == str_strip(str_lower(IF v[1] = "int" THEN int_to_str(v[2]) ELSE v[2]))

\* Two values are equal verbatim, or are two str that differ in letter case
\* or surrounding whitespace only.
SameUpToCaseWs(v, w) ==
    \/ v = w
    \/ /\ v[1] = "str"
       /\ w[1] = "str"
       /\ str_upper(str_strip(v[2])) = str_upper(str_strip(w[2]))

\* Two dicts have the same content fields, with values equal up to case and
\* surrounding whitespace.
SameContent(d, e) ==
    /\ dict_keys(ContentItems(d)) = dict_keys(ContentItems(e))
    /\ \A k \in dict_keys(ContentItems(d)) :
        SameUpToCaseWs(dict_get(d, k), dict_get(e, k))

\* Two dicts have the same content fields, with the same normalised values.
SameNormalizedContent(d, e) ==
    /\ dict_keys(ContentItems(d)) = dict_keys(ContentItems(e))
    /\ \A k \in dict_keys(ContentItems(d)) :
        NormalForm(dict_get(d, k)) = NormalForm(dict_get(e, k))

\* The last operation was add_data on a dict without metadata fields.
AddedFresh ==
    /\ result.op = "add_data"
    /\ dict_keys(arg_data) \cap MetadataKeys = { }

\* C1: once a record is admitted, add_data on a fresh record with the same
\* content, verbatim or up to letter case and surrounding whitespace, returns
\* 'rejected' with existing_data the record admitted before.
C1_ResubmissionRejected ==
    AddedFresh =>
        \A i \in 1..Len(arg_list) :
            SameContent(arg_list[i], arg_data) =>
                /\ result.ret.status = "rejected"
                /\ \E j \in 1..Len(arg_list) :
                    /\ SameContent(arg_list[j], arg_data)
                    /\ result.ret.existing_data = arg_list[j]

\* C2: main() prints added, rejected, rejected, added, added, rejected, and
\* get_stats then reports 6 processed, 3 duplicates, 3 unique, 3 stored.
C2_MainOutcomes ==
    LET expected == << "added", "rejected", "rejected", "added", "added", "rejected" >>
    IN  /\ outcomes = SubSeq(expected, 1, Len(outcomes))
        /\ main_pc = "stats" =>
            result.ret = [total_processed |-> 6, duplicates_found |-> 3,
                          unique_entries |-> 3, total_stored |-> 3]

\* C3: no two records of data_store have the same normalised content.
C3_StoreUnique ==
    \A i, j \in 1..Len(data_store) :
        i < j => ~SameNormalizedContent(data_store[i], data_store[j])

\* C4: the unique_id field is excluded from the digest: two dicts that differ
\* only in the presence or value of unique_id have the same generate_hash.
C4_UniqueIdExcluded ==
    rel = "unique_id" => hash_a = hash_b

\* C5: two dicts that differ only in the value or presence of timestamp have
\* the same generate_hash, and check_redundancy reports one a duplicate of
\* the other.
C5_TimestampExcluded ==
    rel = "timestamp" => hash_a = hash_b /\ verdict = Some(TRUE)

\* C5 witness: both dicts carry a timestamp, with different values.
C5_Witness ==
    /\ rel = "timestamp"
    /\ hash_a # None
    /\ dict_has(rec_a, K_timestamp)
    /\ dict_has(rec_b, K_timestamp)
    /\ dict_get(rec_a, K_timestamp) # dict_get(rec_b, K_timestamp)
    /\ ContentItems(rec_a) # << >>

\* C6: changing the letter case of content values, or adding or removing
\* whitespace around them, does not change generate_hash.
C6_CaseWhitespaceInvariance ==
    rel = "casews" => hash_a = hash_b

\* The two dicts have the same content field names, and some content field
\* has different normalised values in them.
ContentDiffers ==
    /\ dict_keys(ContentItems(rec_a)) = dict_keys(ContentItems(rec_b))
    /\ \E k \in dict_keys(ContentItems(rec_a)) :
        NormalForm(dict_get(rec_a, k)) # NormalForm(dict_get(rec_b, k))

\* C7: two dicts with the same content field names and a content field whose
\* normalised values differ have different generate_hash, and
\* check_redundancy does not report one a duplicate of the other.
C7_ContentSensitivity ==
    (hash_a # None /\ ContentDiffers) =>
        hash_a # hash_b /\ verdict = Some(FALSE)

\* C7 witness: only the city differs, 'A' against 3.
C7_Witness ==
    /\ rel = "content"
    /\ ContentDiffers
    /\ dict_has(rec_a, K_name)
    /\ dict_has(rec_a, K_city)
    /\ dict_get(rec_a, K_name) = dict_get(rec_b, K_name)
    /\ dict_get(rec_a, K_city) = << "str", << "A" >> >>
    /\ dict_get(rec_b, K_city) = << "int", 3 >>

\* C8: two dicts with the same items in different insertion orders have the
\* same generate_hash.
C8_OrderIndependence ==
    rel = "order" => hash_a = hash_b

\* C8 witness: name is inserted before city in one dict and after it in the
\* other.
C8_Witness ==
    /\ rel = "order"
    /\ hash_a # None
    /\ Len(rec_a) >= 3
    /\ rec_a[1][1] = K_name
    /\ rec_a[2][1] = K_city
    /\ rec_b[1][1] = K_city
    /\ rec_b[Len(rec_b)][1] = K_name

\* The indices of the list of the last call whose digest is the candidate's.
Matches ==
    { i \in 1..Len(arg_list) : generate_hash(arg_list[i]) = generate_hash(arg_data) }

MinOf(S) == CHOOSE i \in S : \A j \in S : i <= j

\* C9: when elements of the list have the candidate's digest,
\* check_redundancy returns (True, e) with e the one of smallest index.
C9_FirstMatch ==
    (result.op = "check_redundancy" /\ Matches # { }) =>
        result.ret = [is_duplicate |-> TRUE,
                      matching_entry |-> Some(arg_list[MinOf(Matches)])]

\* C9 witness: three elements match, the first unlike the later ones.
C9_Witness ==
    /\ result.op = "check_redundancy"
    /\ Cardinality(Matches) = 3
    /\ MinOf(Matches) = 1
    /\ \A i \in Matches \ { 1 } : arg_list[i] # arg_list[1]
    /\ result.ret.is_duplicate

\* C10: after n check_redundancy calls processed_count = n and
\* duplicate_count + unique_count = processed_count; each call adds one to
\* processed_count and one to duplicate_count or to unique_count, as the
\* is_duplicate it returns says.
C10_CounterConsistency ==
    /\ [](processed_count = calls /\ duplicate_count + unique_count = processed_count)
    /\ [][calls' # calls =>
            /\ calls' = calls + 1
            /\ processed_count' = processed_count + 1
            /\ IF result'.ret.is_duplicate
               THEN duplicate_count' = duplicate_count + 1 /\ unique_count' = unique_count
               ELSE unique_count' = unique_count + 1 /\ duplicate_count' = duplicate_count]_vars

\* C10 witness: three calls, of which some found a duplicate and some none.
C10_Witness ==
    /\ calls = 3
    /\ processed_count = 3
    /\ duplicate_count > 0
    /\ unique_count > 0
    /\ result.op = "check_redundancy"

\* The call ended in an exception instead of a return value.
Raised(r) == "raised" \in DOMAIN r

\* C11: a check_redundancy call that fails on a candidate that is not a
\* mapping leaves processed_count, duplicate_count and unique_count as they
\* were before the call.
C11_FailureKeepsCounters ==
    [][(calls' # calls /\ Raised(result'))
        => UNCHANGED << processed_count, duplicate_count, unique_count >>]_vars

\* C12: a check_redundancy call on a candidate that is not a mapping ends in
\* an error, whatever the list (the empty one included); it never returns
\* (False, None) or (True, record).
C12_MalformedSignalled ==
    (result.op = "check_redundancy" /\ arg_type \in NonMappingTypes)
        => Raised(result)

\* C13: over any sequence of check_redundancy, add_data, get_stats and
\* get_all_data, none of processed_count, duplicate_count and unique_count
\* ever decreases, and get_stats changes none of them.
C13_MonotonicCounters ==
    [][/\ processed_count' >= processed_count
       /\ duplicate_count' >= duplicate_count
       /\ unique_count' >= unique_count
       /\ result'.op = "get_stats"
            => UNCHANGED << processed_count, duplicate_count, unique_count >>]_vars

\* get_stats has just returned on a detector that has counted a duplicate
\* and two unique records.
C13_Witness ==
    /\ result.op = "get_stats"
    /\ duplicate_count > 0
    /\ unique_count > 1

\* C14: check_redundancy(c, L) on a mapping c returns (True, e) only with e
\* an element of L whose digest equals c's, and returns (False, None)
\* exactly when no element of L has c's digest; on the empty list it
\* returns (False, None).
C14_DecisionExact ==
    result.op = "check_redundancy" =>
        /\ result.ret.is_duplicate =>
                \E i \in 1..Len(arg_list) :
                    /\ result.ret.matching_entry = Some(arg_list[i])
                    /\ generate_hash(arg_list[i]) = generate_hash(arg_data)
        /\ result.ret = [is_duplicate |-> FALSE, matching_entry |-> None]
                <=> Matches = { }
        /\ arg_list = << >> => ~result.ret.is_duplicate

\* C14 witness: (False, None) on a list of three records, none of which
\* has the candidate's digest.
C14_Witness ==
    /\ result.op = "check_redundancy"
    /\ Len(arg_list) = 3
    /\ Matches = { }
    /\ ~result.ret.is_duplicate

\* rec_b is rec_a with one content field, absent from rec_a, set to ''.
EmptyFieldAdded ==
    /\ rel = "missing"
    /\ \E k \in ContentKeys :
        /\ ~dict_has(rec_a, k)
        /\ rec_b = dict_set(rec_a, k, << "str", << >> >>)

\* C16: a dict without the field f and the same dict with f set to the
\* empty string have different digests, and check_redundancy does not
\* report one as a duplicate of the other.
C16_MissingNotEmpty ==
    EmptyFieldAdded => hash_a # hash_b /\ verdict = Some(FALSE)

\* C16 witness: a dict with a name and no city, against the same with
\* city set to ''.
C16_Witness ==
    /\ EmptyFieldAdded
    /\ dict_has(rec_a, K_name)
    /\ ~dict_has(rec_a, K_city)
    /\ dict_has(rec_b, K_city)
    /\ hash_b # None

\* The unique_id a dict carries, if any.
UniqueIdOf(d) == IF dict_has(d, K_unique_id) THEN Some(dict_get(d, K_unique_id)) ELSE None

C17_OnlyCountersChange ==
    [][calls' # calls =>
        /\ new_data' = arg_data'
        /\ existing_data_list' = existing_data_list
        /\ UNCHANGED << data_store, clock >>]_vars

\* C17 witness: a call returned (True, e) at the second element of its
\* list, on a candidate whose name is not in normal form.
C17_Witness ==
    /\ result.op = "check_redundancy"
    /\ result.ret.is_duplicate
    /\ Matches # { }
    /\ MinOf(Matches) = 2
    /\ dict_get(arg_data, K_name) = << "str", S_A_sp >>
    /\ new_data = arg_data

\* C19: after any sequence of add_data calls the number of stored records
\* is unique_count and the number of the other calls is duplicate_count,
\* and get_stats reports total_stored == unique_entries and
\* total_processed - total_stored == duplicates_found.
C19_StoredEqualsUnique ==
    /\ Len(data_store) = unique_count
    /\ processed_count - Len(data_store) = duplicate_count
    /\ result.op = "get_stats" =>
            /\ result.ret.total_stored = result.ret.unique_entries
            /\ result.ret.total_processed - result.ret.total_stored
                    = result.ret.duplicates_found

\* C19 witness: get_stats after two admissions and one rejection.
C19_Witness ==
    /\ result.op = "get_stats"
    /\ result.ret.total_stored = 2
    /\ result.ret.duplicates_found = 1
    /\ result.ret.total_processed = 3

\* Every thread has returned from its call.
AllDone == \A t \in DOMAIN thr : thr[t].pc = "done"

\* C18: when k threads have each made one check_redundancy call on the
\* same detector, in whatever order their steps were taken,
\* processed_count = k and duplicate_count + unique_count = k.
C18_NoLostIncrement ==
    AllDone =>
        /\ processed_count = Len(thr)
        /\ duplicate_count + unique_count = Len(thr)

=============================================================================
